---- MODULE Spec2Model ----
(***************************************************************************)
(* arplay: a multi-stream H.264 viewer.  One Listener thread accepts TCP   *)
(* connections, one Reader thread per connection frames the byte stream    *)
(* into packets, and the main thread (the Coordinator) drains one mpsc     *)
(* channel (the Event Bus), owns the `windows` map (the SessionTable) and  *)
(* tiles the windows (align_windows).                                      *)
(*                                                                         *)
(* A panic of the main thread ends the process: every thread stops.  A     *)
(* panic of a spawned thread ends that thread only.                        *)
(***************************************************************************)
EXTENDS Integers, Sequences, FiniteSets, TLC

(* ------------------------------ bounds -------------------------------- *)
\* descriptors the Listener's accept may return (Spec)
NumFds == 2
\* connections accepted in one run (Spec)
MaxConns == 3
\* packets one connection delivers before it ends (Spec)
MaxFrames == 2
\* descriptors of the Coordinator-only specification (SpecCoordinator)
NumLayoutFds == 3
\* sessions inserted in one run of SpecCoordinator
MaxLayoutConns == 3
\* packets drawn per session in SpecCoordinator
MaxLayoutFrames == 1
\* whole packets in the byte stream of SpecReader
MaxPackets == 2
\* connections accepted in one run of SpecLive
MaxLiveConns == 2

Fds == 1..NumFds
LayoutFds == 1..NumLayoutFds
Conns == 1..MaxConns

\* const PADDING: i32 = 20
PADDING == 20

\* a payload the decoder rejects (avcodec_send_packet / receive_frame < 0)
Corrupt == <<0, 0>>
\* (width, height) of the pictures the streams of Spec decode to
Pics == {<<100, 100>>, <<200, 100>>}
\* (width, height) of the pictures of SpecCoordinator
LayoutPics == {<<100, 100>>, <<200, 100>>, <<150, 100>>}
\* current_display_mode(0): (w, h) of the screen
Screens == {<<1000, 800>>}
LayoutScreens == {<<1000, 800>>, <<301, 75>>}
\* Instant::now() is monotonically non-decreasing: two successive readings
\* are equal (0) or increase (1)
Ticks == {0, 1}

VARIABLES
    lpc,      \* Listener thread: "spawned", "listening", "bind_failed"
    open,     \* open[fd]: the connection holding descriptor fd, 0 when closed
    nconn,    \* connections accepted so far
    rfd,      \* rfd[c]: descriptor of connection c (0 before accept)
    rpc,      \* Reader of connection c: "none", "run", "sent_end", "done"
    sent,     \* sent[c]: Data messages connection c's Reader has published
    bus,      \* the mpsc channel: messages sent and not yet received
    cpc,      \* main thread: "poll", "recv", "exited", "panicked"
    fault,    \* the unwrap/assert that panicked the main thread
    windows,  \* the WindowMap: fd -> (H264Window, Instant)
    clock,    \* last reading of Instant::now()
    screen,   \* (screen_w, screen_h)
    last,     \* what the Coordinator's latest recv did
    io        \* one connection's byte stream and its read_packet (SpecReader)

vars == <<lpc, open, nconn, rfd, rpc, sent, bus, cpc, fault, windows, clock,
          screen, last, io>>

listenerVars == <<lpc, open, nconn, rfd>>
readerVars == <<rpc, sent>>
coordVars == <<cpc, fault, windows, clock, last>>

(* --------------------------- pure helpers ----------------------------- *)

\* i32 division: Rust truncates toward zero
TruncDiv(a, b) == IF a >= 0 THEN a \div b ELSE -((-a) \div b)

\* the orders in which HashMap::iter() may visit the keys S
Orders(S) ==
    {s \in [1..Cardinality(S) -> S] :
        \A i, j \in 1..Cardinality(S) : i # j => s[i] # s[j]}

\* mutant of Remove: the entry is looked up but left in the map
RemoveNothing(wins, fd) == wins

\* the map without key fd (HashMap::remove)
Remove(wins, fd) == [f \in DOMAIN wins \ {fd} |-> wins[f]]

\* the map with fd bound to win, replacing any previous entry (HashMap::insert)
Insert(wins, fd, win) ==
    [f \in DOMAIN wins \cup {fd} |-> IF f = fd THEN win ELSE wins[f]]

\* the record of the latest match arm the main thread ran: the message
\* (op, fd, cid, n), the state fd's entry was in, what decode returned and
\* the size of the picture it left in the frame, what YUVWindow::new
\* returned, and whether align_windows was called
NoLast ==
    [op |-> "none", fd |-> 0, cid |-> 0, n |-> 0, was |-> "absent",
     decode |-> "na", pic |-> <<0, 0>>, create |-> "na", relayout |-> FALSE]

\* the state of fd's entry: "absent", "pending" (no YUVWindow), "active"
StateOf(wins, fd) ==
    IF fd \notin DOMAIN wins THEN "absent"
    ELSE IF wins[fd].shown THEN "active" ELSE "pending"

(* --------------------------- H264Window ------------------------------- *)

\* H264Window::new: decoder opened, video subsystem held, no YUVWindow yet.
\* created is the Instant stored beside it in the map; cid is the connection
\* the entry was made for; drawn is the last packet drawn.
H264Window_new(cid, now) ==
    [cid |-> cid, created |-> now, video |-> TRUE, shown |-> FALSE,
     w |-> 0, h |-> 0, pos |-> <<0, 0>>, drawn |-> 0]

\* H264Window::is_shown
is_shown(win) == win.shown

\* H264Window::size: (w.width, w.height) of the YUVWindow, (0, 0) without one
size(win) == IF win.shown THEN <<win.w, win.h>> ELSE <<0, 0>>

\* H264Window::width
width(win) == size(win)[1]

\* H264Window::set_position: moves the YUVWindow when there is one
set_position(win, x, y) ==
    IF win.shown THEN [win EXCEPT !.pos = <<x, y>>] ELSE win

\* YUVWindow::new, Ok: a window of the picture's size, position_centered()
YUVWindow_new(win, pic, scr) ==
    [win EXCEPT !.video = FALSE, !.shown = TRUE, !.w = pic[1], !.h = pic[2],
                !.pos = <<TruncDiv(scr[1] - pic[1], 2),
                          TruncDiv(scr[2] - pic[2], 2)>>]

(* --------------------------- align_windows ---------------------------- *)

\* items.sort_by(|(_, a), (_, b)| a.cmp(&b)): a stable sort on the Instant
\* alone.  InsertByCreated puts f after every element that is not later.
RECURSIVE InsertByCreated(_, _, _)
InsertByCreated(s, f, wins) ==
    IF s = <<>> THEN <<f>>
    ELSE IF wins[s[Len(s)]].created <= wins[f].created THEN Append(s, f)
    ELSE Append(InsertByCreated(SubSeq(s, 1, Len(s) - 1), f, wins), s[Len(s)])

RECURSIVE SortByCreated(_, _)
SortByCreated(iter, wins) ==
    IF iter = <<>> THEN <<>>
    ELSE InsertByCreated(SortByCreated(SubSeq(iter, 1, Len(iter) - 1), wins),
                         iter[Len(iter)], wins)

\* windows.iter().fold(0, |acc, (_, (win, _))| acc + win.width())
RECURSIVE SumWidths(_, _)
SumWidths(items, wins) ==
    IF items = <<>> THEN 0
    ELSE width(wins[Head(items)]) + SumWidths(Tail(items), wins)

\* the padding the total width counts: (size - 1) * PADDING, size = len()
TotalPadding(wins) == (Cardinality(DOMAIN wins) - 1) * PADDING

\* mutant of Advance: the padding is left out of the step
AdvanceNoPadding(win) == width(win)

\* what the loop adds to x after placing win
Advance(win) == width(win) + PADDING

\* x of the i-th item of the sorted list
RECURSIVE XOf(_, _, _, _)
XOf(items, i, x0, wins) ==
    IF i = 1 THEN x0
    ELSE XOf(items, i - 1, x0, wins) + Advance(wins[items[i - 1]])

\* align_windows(windows, width, height), the map iterated in order iter
align_windows(wins, iter, scr) ==
    LET w == SumWidths(iter, wins) + TotalPadding(wins)
        x0 == TruncDiv(scr[1] - w, 2)
        items == SortByCreated(iter, wins)
        idx(f) == CHOOSE i \in 1..Len(items) : items[i] = f
    IN  [f \in DOMAIN wins |->
            set_position(wins[f], XOf(items, idx(f), x0, wins),
                        TruncDiv(scr[2] - size(wins[f])[2], 2))]

(* ------------------------- the Coordinator ---------------------------- *)

\* the process is running: the main thread neither returned nor panicked
Alive == cpc \in {"poll", "recv"}

\* a panic of the main thread at the named unwrap/assert
Panic(what) == cpc' = "panicked" /\ fault' = what

\* mutant of Continue: the arm goes back to recv_timeout, not to the poll
ContinueDraining == cpc' = "recv" /\ fault' = fault

\* back to the top of 'running
Continue == cpc' = "poll" /\ fault' = fault

\* Msg::New(fd, s): peer_addr(&s) unwraps s.peer_addr(); H264Window::new;
\* windows.insert(fd, (win, Instant::now())).  peerOk: peer_addr() was Ok;
\* tick: how far Instant::now() moved since its last reading.
HandleNew(m, peerOk, tick) ==
    /\ last' = [NoLast EXCEPT !.op = "new", !.fd = m.fd, !.cid = m.cid,
                              !.was = StateOf(windows, m.fd)]
    /\ IF peerOk
       THEN /\ windows' = Insert(windows, m.fd, H264Window_new(m.cid, clock + tick))
            /\ clock' = clock + tick
            /\ Continue
       ELSE /\ Panic("peer_addr")
            /\ UNCHANGED <<windows, clock>>

\* mutant of update: the window takes the size of every picture drawn
update_resizes(win, pic, n) ==
    [win EXCEPT !.drawn = n, !.w = pic[1], !.h = pic[2]]

\* YUVWindow::update(&self.frame): packet n's picture is put on the window
\* that is there; width, height and position are not touched
update(win, pic, n) == [win EXCEPT !.drawn = n]

\* mutant of InitIsNew: is_new starts out true
InitIsNewTrue == TRUE

\* let mut is_new = false
InitIsNew == FALSE

\* mutant of Realign: align_windows after every Data
RealignAlways(is_new) == TRUE

\* if is_new { align_windows(..) }
Realign(is_new) == is_new

\* Msg::Data(fd, data) with fd in the map: win.draw(data), then
\* align_windows when the window was not shown before.  pic: what the
\* decoder makes of data (Corrupt: ret < 0); createOk: YUVWindow::new was Ok.
DrawAndAlign(m, pic, createOk) ==
    LET win == windows[m.fd]
        is_new == ~is_shown(win)
        base == [NoLast EXCEPT !.op = "data", !.fd = m.fd, !.cid = m.cid,
                               !.n = m.n, !.was = StateOf(windows, m.fd),
                               !.pic = pic]
        drawn == IF is_new
                 THEN [windows EXCEPT
                          ![m.fd] = update(YUVWindow_new(win, pic, screen),
                                           pic, m.n)]
                 ELSE [windows EXCEPT ![m.fd] = update(win, pic, m.n)]
    IN  IF pic = Corrupt
        THEN \* decode: assert!(ret >= 0)
             /\ Panic("decode")
             /\ last' = [base EXCEPT !.decode = "fail"]
             /\ UNCHANGED windows
        ELSE IF is_new /\ ~win.video
        THEN \* self.video.take().unwrap() on None
             /\ Panic("video")
             /\ last' = [base EXCEPT !.decode = "ok"]
             /\ UNCHANGED windows
        ELSE IF is_new /\ ~createOk
        THEN \* self.window = Err(..).ok(); self.window.as_mut().unwrap()
             /\ Panic("display")
             /\ last' = [base EXCEPT !.decode = "ok", !.create = "fail"]
             /\ windows' = [windows EXCEPT ![m.fd].video = FALSE]
        ELSE \* the window is there or was just made: update(&self.frame)
             /\ Continue
             /\ last' = [base EXCEPT !.decode = "ok",
                                     !.create = IF is_new THEN "ok" ELSE "na",
                                     !.relayout = Realign(is_new)]
             /\ IF Realign(is_new)
                THEN \E iter \in Orders(DOMAIN windows) :
                         windows' = align_windows(drawn, iter, screen)
                ELSE windows' = drawn

\* Msg::Data(fd, data)
HandleData(m, pic, createOk) ==
    /\ clock' = clock
    /\ IF m.fd \in DOMAIN windows
       THEN DrawAndAlign(m, pic, createOk)
       ELSE \* windows.get_mut(&fd) is None: is_new keeps its initial value
            /\ Continue
            /\ last' = [NoLast EXCEPT !.op = "data", !.fd = m.fd,
                                      !.cid = m.cid, !.n = m.n,
                                      !.relayout = Realign(InitIsNew)]
            /\ IF Realign(InitIsNew)
               THEN \E iter \in Orders(DOMAIN windows) :
                        windows' = align_windows(windows, iter, screen)
               ELSE windows' = windows

\* mutant of EndAbsent: align_windows is called outside the closure
EndAbsentAligns(m) ==
    /\ Continue
    /\ last' = [NoLast EXCEPT !.op = "end", !.fd = m.fd, !.cid = m.cid,
                              !.relayout = TRUE]
    /\ \E iter \in Orders(DOMAIN windows) :
           windows' = align_windows(windows, iter, screen)

\* Msg::End(fd) with fd not in the map: windows.remove(&fd) is None and
\* and_then does not run the closure
EndAbsent(m) ==
    /\ Continue
    /\ last' = [NoLast EXCEPT !.op = "end", !.fd = m.fd, !.cid = m.cid]
    /\ UNCHANGED windows

\* Msg::End(fd): windows.remove(&fd).and_then(|win| { win.hide();
\* align_windows(..) }).  The entry is out of the map before hide() runs.
HandleEnd(m) ==
    /\ clock' = clock
    /\ IF m.fd \in DOMAIN windows
       THEN LET win == windows[m.fd]
                rest == Remove(windows, m.fd)
                base == [NoLast EXCEPT !.op = "end", !.fd = m.fd,
                                       !.cid = m.cid,
                                       !.was = StateOf(windows, m.fd)]
            IN  IF ~is_shown(win)
                THEN \* hide: self.window.as_mut().unwrap() on None
                     /\ Panic("hide")
                     /\ last' = base
                     /\ windows' = rest
                ELSE /\ Continue
                     /\ last' = [base EXCEPT !.relayout = TRUE]
                     /\ \E iter \in Orders(DOMAIN rest) :
                            windows' = align_windows(rest, iter, screen)
       ELSE EndAbsent(m)

\* the match on the received message
Handle(m) ==
    \/ /\ m.type = "New"
       /\ \E peerOk \in BOOLEAN, tick \in Ticks : HandleNew(m, peerOk, tick)
    \/ /\ m.type = "Data"
       /\ \E pic \in Pics \cup {Corrupt}, createOk \in BOOLEAN :
              HandleData(m, pic, createOk)
    \/ /\ m.type = "End"
       /\ HandleEnd(m)

\* event_pump.poll_iter() yields no quit event: on to recv_timeout
Poll ==
    /\ cpc = "poll"
    /\ cpc' = "recv"
    /\ UNCHANGED <<listenerVars, readerVars, bus, fault, windows, clock,
                   screen, last, io>>

\* Event::Quit or Escape: break 'running, main returns, the process exits
Quit ==
    /\ cpc = "poll"
    /\ cpc' = "exited"
    /\ UNCHANGED <<listenerVars, readerVars, bus, fault, windows, clock,
                   screen, last, io>>

\* rx.recv_timeout(..) is Ok(msg): the oldest message, handled whole;
\* Msg::New also spawns the Reader (spawn_streaming)
Recv ==
    /\ cpc = "recv"
    /\ bus # <<>>
    /\ bus' = Tail(bus)
    /\ Handle(Head(bus))
    /\ rpc' = IF Head(bus).type = "New" /\ cpc' = "poll"
              THEN [rpc EXCEPT ![Head(bus).cid] = "run"]
              ELSE rpc
    /\ UNCHANGED <<listenerVars, sent, screen, io>>

\* rx.recv_timeout(..) is Err(Timeout): nothing arrived within the tick
Timeout ==
    /\ cpc = "recv"
    /\ bus = <<>>
    /\ cpc' = "poll"
    /\ UNCHANGED <<listenerVars, readerVars, bus, fault, windows, clock,
                   screen, last, io>>

(* --------------------------- the Listener ----------------------------- *)

Msg(type, fd, cid, n) == [type |-> type, fd |-> fd, cid |-> cid, n |-> n]

\* mutant of Send: the message overtakes the ones already queued
SendFront(q, m) == <<m>> \o q

\* tx.send(msg) on the mpsc channel: msg goes behind everything sent before
Send(q, m) == Append(q, m)

\* mutant of FreeFds: an id that is not unique among the open connections
AnyFd == Fds

\* the descriptors accept() may return: those no open socket holds.  The
\* TcpStream of a connection stays open from accept until its Reader's
\* closure returns.
FreeFds == {fd \in Fds : open[fd] = 0}

\* TcpListener::bind(addr) is Ok
BindOk ==
    /\ Alive
    /\ lpc = "spawned"
    /\ lpc' = "listening"
    /\ UNCHANGED <<open, nconn, rfd, readerVars, bus, coordVars, screen, io>>

\* TcpListener::bind(addr).unwrap() panics: the Listener thread ends
BindFail ==
    /\ Alive
    /\ lpc = "spawned"
    /\ lpc' = "bind_failed"
    /\ UNCHANGED <<open, nconn, rfd, readerVars, bus, coordVars, screen, io>>

\* listener.incoming() yields Ok(s): fd = s.as_raw_fd(); send Msg::New(fd, s)
Accept ==
    /\ Alive
    /\ lpc = "listening"
    /\ nconn < MaxConns
    /\ \E fd \in FreeFds :
        /\ nconn' = nconn + 1
        /\ open' = [open EXCEPT ![fd] = nconn + 1]
        /\ rfd' = [rfd EXCEPT ![nconn + 1] = fd]
        /\ bus' = Send(bus, Msg("New", fd, nconn + 1, 0))
    /\ UNCHANGED <<lpc, readerVars, coordVars, screen, io>>

(* ---------------------------- the Readers ----------------------------- *)

\* read_packet is Ok(data): send Msg::Data(fd, data)
ReadOk(c) ==
    /\ Alive
    /\ rpc[c] = "run"
    /\ sent[c] < MaxFrames
    /\ sent' = [sent EXCEPT ![c] = sent[c] + 1]
    /\ bus' = Send(bus, Msg("Data", rfd[c], c, sent[c] + 1))
    /\ UNCHANGED <<listenerVars, rpc, coordVars, screen, io>>

\* mutant of ReadErr: the break is missing, the loop reads on
ReadErrNoBreak(c) ==
    /\ Alive
    /\ rpc[c] = "run"
    /\ bus' = Send(bus, Msg("End", rfd[c], c, 0))
    /\ UNCHANGED <<listenerVars, rpc, sent, coordVars, screen, io>>

\* read_packet is Err: send Msg::End(fd), break
ReadErr(c) ==
    /\ Alive
    /\ rpc[c] = "run"
    /\ rpc' = [rpc EXCEPT ![c] = "sent_end"]
    /\ bus' = Send(bus, Msg("End", rfd[c], c, 0))
    /\ UNCHANGED <<listenerVars, sent, coordVars, screen, io>>

\* the closure returns: the TcpStream is dropped and its descriptor closed
ReaderExit(c) ==
    /\ Alive
    /\ rpc[c] = "sent_end"
    /\ rpc' = [rpc EXCEPT ![c] = "done"]
    /\ open' = [open EXCEPT ![rfd[c]] = 0]
    /\ UNCHANGED <<lpc, nconn, rfd, sent, bus, coordVars, screen, io>>

(* ------------------------- the whole program -------------------------- *)

\* no byte stream is followed: read_packet is taken as one step (ReadOk,
\* ReadErr)
NoIo == [phase |-> "off"]

InitShared ==
    /\ open = [f \in Fds |-> 0]
    /\ nconn = 0
    /\ rfd = [c \in Conns |-> 0]
    /\ rpc = [c \in Conns |-> "none"]
    /\ sent = [c \in Conns |-> 0]
    /\ bus = <<>>
    /\ cpc = "poll"
    /\ fault = "none"
    /\ windows = [f \in {} |-> 0]
    /\ clock = 0
    /\ last = NoLast

\* main up to 'running: the map is empty, the Listener thread is spawned
Init ==
    /\ InitShared
    /\ lpc = "spawned"
    /\ screen \in Screens
    /\ io = NoIo

Next ==
    \/ BindOk
    \/ BindFail
    \/ Accept
    \/ \E c \in Conns : ReadOk(c)
    \/ \E c \in Conns : ReadErr(c)
    \/ \E c \in Conns : ReaderExit(c)
    \/ Poll
    \/ Quit
    \/ Recv
    \/ Timeout

Spec == Init /\ [][Next]_vars

(* ------------------- the program under fair scheduling ---------------- *)
(* No quit event arrives, the main thread keeps turning its loop, and a    *)
(* Reader whose loop has broken returns.  Nothing is assumed of the peers: *)
(* a connection may stay open and silent for ever.                         *)

AcceptLive ==
    /\ nconn < MaxLiveConns
    /\ Accept

\* one step of the main thread
MainStep ==
    \/ Poll
    \/ Recv
    \/ Timeout

NextLive ==
    \/ BindOk
    \/ BindFail
    \/ AcceptLive
    \/ \E c \in Conns : ReadOk(c)
    \/ \E c \in Conns : ReadErr(c)
    \/ \E c \in Conns : ReaderExit(c)
    \/ MainStep

SpecLive ==
    /\ Init
    /\ [][NextLive]_vars
    /\ WF_vars(MainStep)
    /\ \A c \in Conns : WF_vars(ReaderExit(c))

(* -------------------- the Coordinator on its own ---------------------- *)
(* The main thread fed every message sequence the bus can deliver to it:  *)
(* New for a descriptor not in the map, then Data and End for sessions in  *)
(* the map, and also Data and End for a descriptor that is not in the map  *)
(* (the match arms take any fd).  Used for the layout, which needs more    *)
(* sessions and sizes, and for the arms' handling of an unknown fd.        *)

CoordNew ==
    /\ cpc = "recv"
    /\ nconn < MaxLayoutConns
    /\ \E fd \in LayoutFds \ DOMAIN windows, peerOk \in BOOLEAN, tick \in Ticks :
           HandleNew(Msg("New", fd, nconn + 1, 0), peerOk, tick)
    /\ nconn' = nconn + 1
    /\ UNCHANGED <<lpc, open, rfd, readerVars, bus, screen, io>>

CoordData ==
    /\ cpc = "recv"
    /\ \E fd \in DOMAIN windows, pic \in LayoutPics \cup {Corrupt},
          createOk \in BOOLEAN :
           /\ windows[fd].drawn < MaxLayoutFrames
           /\ HandleData(Msg("Data", fd, windows[fd].cid, windows[fd].drawn + 1),
                         pic, createOk)
    /\ UNCHANGED <<listenerVars, readerVars, bus, screen, io>>

CoordEnd ==
    /\ cpc = "recv"
    /\ \E fd \in DOMAIN windows : HandleEnd(Msg("End", fd, windows[fd].cid, 0))
    /\ UNCHANGED <<listenerVars, readerVars, bus, screen, io>>

\* Msg::Data(fd, data) arrives for an fd that has no entry
CoordStaleData ==
    /\ cpc = "recv"
    /\ \E fd \in LayoutFds \ DOMAIN windows, pic \in LayoutPics \cup {Corrupt},
          createOk \in BOOLEAN :
           HandleData(Msg("Data", fd, 0, 1), pic, createOk)
    /\ UNCHANGED <<listenerVars, readerVars, bus, screen, io>>

\* Msg::End(fd) arrives for an fd that has no entry
CoordStaleEnd ==
    /\ cpc = "recv"
    /\ \E fd \in LayoutFds \ DOMAIN windows : HandleEnd(Msg("End", fd, 0, 0))
    /\ UNCHANGED <<listenerVars, readerVars, bus, screen, io>>

InitCoordinator ==
    /\ InitShared
    /\ lpc = "listening"
    /\ screen \in LayoutScreens
    /\ io = NoIo

NextCoordinator ==
    \/ Poll
    \/ Quit
    \/ CoordNew
    \/ CoordData
    \/ CoordEnd
    \/ CoordStaleData
    \/ CoordStaleEnd

SpecCoordinator == InitCoordinator /\ [][NextCoordinator]_vars

(* ----------------------- read_packet, byte by byte -------------------- *)
(* One connection's Reader with the stream delivered in chunks: every     *)
(* underlying read() returns some of the bytes that are left, 0 at end of  *)
(* stream, or an error.  io.out is what spawn_streaming sends.             *)

\* payloads of the packets on the wire; the last one holds a header inside
Payloads == {<<>>, <<7>>, <<2, 0>>, <<1, 0, 0, 0, 9>>}

\* the u32 L as 4 little-endian bytes
U32LE(L) ==
    <<L % 256, (L \div 256) % 256, (L \div 65536) % 256,
      (L \div 16777216) % 256>>

\* one packet on the wire: |4 bytes size| + |<size> bytes of data|
Packet(p) == U32LE(Len(p)) \o p

\* the packets ps on the wire, one after the other
RECURSIVE Wire(_)
Wire(ps) == IF ps = <<>> THEN <<>> ELSE Packet(Head(ps)) \o Wire(Tail(ps))

\* the streams' last, incomplete packets: a packet cut short inside its
\* length or its payload, or a header announcing 256 bytes and one byte
Tails ==
    UNION {{SubSeq(Packet(p), 1, k) : k \in 0..(Len(Packet(p)) - 1)} :
              p \in Payloads}
        \cup {<<0, 1, 0, 0, 5>>}

\* sequences of at most n payloads
RECURSIVE PacketSeqs(_)
PacketSeqs(n) ==
    IF n = 0 THEN {<<>>}
    ELSE PacketSeqs(n - 1) \cup
         {Append(ps, p) : ps \in {q \in PacketSeqs(n - 1) : Len(q) = n - 1},
                          p \in Payloads}

\* vec![0; n]
Zeros(n) == [i \in 1..n |-> 0]

\* buf.into_buf().get_u32_le()
get_u32_le(b) == b[1] + 256 * b[2] + 65536 * b[3] + 16777216 * b[4]

\* read() copies chunk into buf behind the got bytes already there
Put(buf, got, chunk) ==
    [i \in 1..Len(buf) |->
        IF got < i /\ i <= got + Len(chunk) THEN chunk[i - got] ELSE buf[i]]

\* mutant of Filled: read() in the place of read_exact(), one read is enough
FilledByOneRead(got, want) == TRUE

\* read_exact returns Ok once the whole buffer is filled
Filled(got, want) == got = want

\* read_packet from the start: buf = vec![0; 4], read_exact(&mut buf)
AwaitLen(r) == [r EXCEPT !.phase = "len", !.buf = Zeros(4), !.got = 0]

\* Ok(data) => tx.send(Msg::Data(fd, data)), and the loop calls read_packet
Publish(r, data) ==
    AwaitLen([r EXCEPT !.out = Append(r.out, [type |-> "Data", data |-> data])])

\* what read_packet does between two underlying reads: a filled length
\* buffer gives size and vec![0; size] (nothing is read for size = 0), a
\* filled payload buffer is returned
AfterRead(r) ==
    IF ~Filled(r.got, Len(r.buf)) THEN r
    ELSE IF r.phase = "len"
    THEN LET sz == get_u32_le(r.buf)
         IN  IF sz = 0 THEN Publish(r, <<>>)
             ELSE [r EXCEPT !.phase = "payload", !.buf = Zeros(sz), !.got = 0]
    ELSE Publish(r, r.buf)

\* _ => tx.send(Msg::End(fd)); break
PublishEnd(r) ==
    [r EXCEPT !.phase = "done",
              !.out = Append(r.out, [type |-> "End", data |-> <<>>])]

Reading == io.phase \in {"len", "payload"}

Min(a, b) == IF a <= b THEN a ELSE b

\* an underlying read() returns k > 0 of the bytes that are left
ReadChunk ==
    /\ Reading
    /\ io.wire # <<>>
    /\ \E k \in 1..Min(Len(io.buf) - io.got, Len(io.wire)) :
           io' = AfterRead(
                    [io EXCEPT !.buf = Put(io.buf, io.got, SubSeq(io.wire, 1, k)),
                               !.got = io.got + k,
                               !.short = io.short \/ k < Len(io.buf) - io.got,
                               !.wire = SubSeq(io.wire, k + 1, Len(io.wire))])
    /\ UNCHANGED <<listenerVars, readerVars, bus, coordVars, screen>>

\* the stream is at its end: read() returns Ok(0), read_exact fails with
\* UnexpectedEof
ReadEof ==
    /\ Reading
    /\ io.wire = <<>>
    /\ io' = PublishEnd([io EXCEPT !.eof = TRUE])
    /\ UNCHANGED <<listenerVars, readerVars, bus, coordVars, screen>>

\* read() returns an error (a reset connection): read_exact fails
ReadFail ==
    /\ Reading
    /\ io' = PublishEnd(io)
    /\ UNCHANGED <<listenerVars, readerVars, bus, coordVars, screen>>

InitReader ==
    /\ InitShared
    /\ lpc = "listening"
    /\ screen \in Screens
    /\ \E ps \in PacketSeqs(MaxPackets), tail \in Tails :
           io = AwaitLen([phase |-> "len", buf |-> <<>>, got |-> 0,
                          wire |-> Wire(ps) \o tail, packets |-> ps,
                          tail |-> tail, out |-> <<>>, eof |-> FALSE,
                          short |-> FALSE])

NextReader ==
    \/ ReadChunk
    \/ ReadEof
    \/ ReadFail

SpecReader == InitReader /\ [][NextReader]_vars

(* ------------------------------ claims -------------------------------- *)

\* connection c's New was handled: its Reader was spawned
Started(c) == rpc[c] # "none"

\* connection c's End was sent and has left the bus: the Coordinator took it
EndProcessed(c) ==
    /\ rpc[c] \in {"sent_end", "done"}
    /\ \A i \in 1..Len(bus) : ~(bus[i].type = "End" /\ bus[i].cid = c)

\* C1: once the End of every started session has been taken by the
\* Coordinator, the windows map is empty, whatever the interleaving and
\* also for sessions that ended before a frame was decoded.
C1_TableEmptyAfterAllEnded ==
    (\A c \in Conns : Started(c) => EndProcessed(c)) => DOMAIN windows = {}

\* C1 witness: two or more sessions ran, one of them with frames, all their
\* Ends were taken, the Coordinator is still running and the map is empty.
C1_Witness ==
    /\ nconn >= 2
    /\ \A c \in 1..nconn : Started(c) /\ EndProcessed(c)
    /\ \E c \in 1..nconn : sent[c] > 0
    /\ Alive
    /\ DOMAIN windows = {}

\* C2 (as claimed): the step that handles a Data whose decode fails removes
\* exactly that session, leaves every other entry in its state and leaves
\* the Coordinator running.
C2_DecodeFailureEndsOnlyThatSession ==
    [][(Len(bus') < Len(bus) /\ last'.decode = "fail") =>
          /\ cpc' = "poll"
          /\ fault' = "none"
          /\ DOMAIN windows' = DOMAIN windows \ {last'.fd}
          /\ \A f \in DOMAIN windows' : windows'[f].shown = windows[f].shown
      ]_vars

\* C3 (as claimed): handling End for a Pending session removes it and leaves
\* the Coordinator running.
C3_EndOfPendingIsSafe ==
    (last.op = "end" /\ last.was = "pending") =>
        /\ Alive
        /\ fault = "none"
        /\ last.fd \notin DOMAIN windows

\* C4: when the Coordinator handles New(fd), fd is not in the windows map:
\* the insert never overwrites a session, also when the descriptor is one
\* an earlier connection held; and a New at the head of the bus never names
\* a descriptor in the map.
C4_NewNeverOverwrites ==
    /\ last.op = "new" => last.was = "absent"
    /\ (bus # <<>> /\ Head(bus).type = "New") =>
           Head(bus).fd \notin DOMAIN windows

\* C4 witness: a New was handled for a descriptor an earlier connection had.
C4_Witness ==
    /\ last.op = "new"
    /\ fault = "none"
    /\ last.fd \in DOMAIN windows
    /\ \E c \in 1..(last.cid - 1) : rfd[c] = last.fd /\ Started(c)

\* the largest capacity a bus can have that a stream of the model still
\* overruns: a Reader publishes up to MaxFrames Data and one End
BusCapacity == MaxFrames

\* C5 (as claimed): the messages sent and not yet received never exceed a
\* fixed capacity; a Reader at the capacity waits for the Coordinator.
C5_BusIsBounded == Len(bus) <= BusCapacity

(* --------------------------- layout claims ---------------------------- *)

\* the descriptors of the sessions with a YUVWindow
ActiveFds(wins) == {f \in DOMAIN wins : wins[f].shown}

\* the sum of the widths of the sessions S
RECURSIVE WidthOver(_, _)
WidthOver(S, wins) ==
    IF S = {} THEN 0
    ELSE LET f == CHOOSE g \in S : TRUE
         IN  wins[f].w + WidthOver(S \ {f}, wins)

\* the sessions S stand in a row in the order ord: the first at
\* (scr.w - total)/2, total = sum of widths + PADDING * (k - 1), each next
\* at the previous x + previous width + PADDING, each at y = (scr.h - h)/2
RowOf(S, ord, wins, scr) ==
    LET k == Cardinality(S)
        total == WidthOver(S, wins) + PADDING * (k - 1)
    IN  /\ wins[ord[1]].pos[1] = TruncDiv(scr[1] - total, 2)
        /\ \A i \in 1..(k - 1) :
               wins[ord[i + 1]].pos[1] =
                   wins[ord[i]].pos[1] + wins[ord[i]].w + PADDING
        /\ \A f \in S : wins[f].pos[2] = TruncDiv(scr[2] - wins[f].h, 2)

\* ord lists sessions in ascending createdAt order
Ascending(ord, wins) ==
    \A i, j \in 1..Len(ord) :
        i < j => wins[ord[i]].created <= wins[ord[j]].created

\* the Active sessions stand in a row, in ascending createdAt order
ActiveInRow(wins, scr) ==
    LET S == ActiveFds(wins)
    IN  S # {} =>
            \E ord \in Orders(S) : Ascending(ord, wins) /\ RowOf(S, ord, wins, scr)

\* the sessions a, b, c of the example: widths 100, 200, 150, heights 100,
\* created in this order, and nothing else in the map
Example(a, b, c) ==
    /\ screen = <<1000, 800>>
    /\ DOMAIN windows = {a, b, c}
    /\ Cardinality({a, b, c}) = 3
    /\ ActiveFds(windows) = {a, b, c}
    /\ windows[a].created < windows[b].created
    /\ windows[b].created < windows[c].created
    /\ <<windows[a].w, windows[a].h>> = <<100, 100>>
    /\ <<windows[b].w, windows[b].h>> = <<200, 100>>
    /\ <<windows[c].w, windows[c].h>> = <<150, 100>>

\* C6 (as claimed): a layout recompute places the Active sessions as if they
\* were alone in the map: total width and start x count the k Active
\* sessions only and consecutive Active windows are PADDING apart, however
\* many Pending sessions the map holds.
C6_LayoutCountsOnlyActive ==
    last.relayout => ActiveInRow(windows, screen)

\* C7: align_windows on a map of Active sessions only puts them in a row in
\* ascending createdAt order, the first at (screenWidth - totalWidth)/2, each
\* next PADDING after the previous, each at y = (screenHeight - height)/2
\* with no clamping; for the 1000x800 example the positions are (255,350),
\* (375,350), (595,350).
C7_AllActiveRow ==
    (last.relayout /\ ActiveFds(windows) = DOMAIN windows) =>
        /\ ActiveInRow(windows, screen)
        /\ \A a, b, c \in DOMAIN windows :
               Example(a, b, c) =>
                   /\ windows[a].pos = <<255, 350>>
                   /\ windows[b].pos = <<375, 350>>
                   /\ windows[c].pos = <<595, 350>>

\* C7 witness: the example's three sessions were just laid out.
C7_Witness ==
    /\ last.relayout
    /\ \E a, b, c \in DOMAIN windows :
           /\ Example(a, b, c)
           /\ windows[c].pos = <<595, 350>>

\* C8 (as claimed): the layout does not depend on the order in which the
\* map is iterated: recomputing it over the same sessions, sizes, createdAt
\* values and screen, in any iteration order, gives every session the
\* position it has, also when two sessions have equal createdAt.
C8_LayoutDeterministic ==
    last.relayout =>
        \A iter \in Orders(DOMAIN windows) :
            align_windows(windows, iter, screen) = windows

\* C9 (as claimed): after YUVWindow::new failed on a session's first picture
\* the Coordinator is running and the session is in the map, Pending.
C9_DisplayFailureIsSafe ==
    last.create = "fail" =>
        /\ Alive
        /\ fault = "none"
        /\ StateOf(windows, last.fd) = "pending"

\* C10 (as claimed): once bind has failed the process is gone: the main
\* thread takes no further step, and no session exists.
C10_BindFailureAborts ==
    [][lpc = "bind_failed" => (cpc' = cpc /\ DOMAIN windows' = {})]_vars

(* ------------------------ claims on the Readers ----------------------- *)

\* the Data and End messages of connection c queued in q, oldest first
MsgsOf(q, c) ==
    LET Mine(m) == m.cid = c /\ m.type # "New"
    IN  SelectSeq(q, Mine)

\* connection c's Reader has left its loop
Ended(c) == rpc[c] \in {"sent_end", "done"}

\* C11: a Reader publishes End exactly once, at the read that fails, and
\* it is the last thing it publishes: an End in the bus is the newest
\* message of its connection, and a Reader that has sent it never publishes
\* or reads again.
C11_EndOnceAndLast ==
    /\ [](\A c \in Conns :
            LET q == MsgsOf(bus, c)
            IN  \A i \in 1..Len(q) :
                    q[i].type = "End" => (i = Len(q) /\ Ended(c)))
    /\ [][\A c \in Conns :
            /\ (rpc[c] = "run" /\ rpc'[c] # "run") =>
                   /\ rpc'[c] = "sent_end"
                   /\ MsgsOf(bus', c) =
                          Append(MsgsOf(bus, c), Msg("End", rfd[c], c, 0))
            /\ Ended(c) =>
                   /\ rpc'[c] \in {"sent_end", "done"}
                   /\ sent'[c] = sent[c]
                   /\ Len(MsgsOf(bus', c)) <= Len(MsgsOf(bus, c))
         ]_vars

\* C11 witness: a Reader that published both its packets has sent End and
\* returned; the End is queued behind its Data.
C11_Witness ==
    \E c \in Conns :
        /\ rpc[c] = "done"
        /\ sent[c] = MaxFrames
        /\ Len(MsgsOf(bus, c)) >= 2
        /\ MsgsOf(bus, c)[Len(MsgsOf(bus, c))].type = "End"

\* the number of Data messages in q
RECURSIVE DataIn(_)
DataIn(q) ==
    IF q = <<>> THEN 0
    ELSE (IF Head(q).type = "Data" THEN 1 ELSE 0) + DataIn(Tail(q))

\* connection c's queued messages are its newest Data, in the order of
\* their packets and with no gap up to the last one sent, then its End if
\* it was sent and not yet received
InPublicationOrder(q, c) ==
    LET k == DataIn(q)
    IN  /\ \A i \in 1..k : q[i] = Msg("Data", rfd[c], c, sent[c] - k + i)
        /\ Len(q) \in {k, k + 1}
        /\ Len(q) = k + 1 => q[k + 1] = Msg("End", rfd[c], c, 0)

\* C12: the Coordinator handles every session's messages in the order its
\* Reader published them, Data in packet order and End last, however they
\* interleave with other sessions' and the Listener's: what is queued of a
\* connection is always the unhandled tail of what it published, and a recv
\* takes the oldest message of that connection and leaves the rest.
C12_PerSessionOrder ==
    /\ [](\A c \in Conns : InPublicationOrder(MsgsOf(bus, c), c))
    /\ [][(Len(bus') < Len(bus) /\ last'.op \in {"data", "end"}) =>
            /\ MsgsOf(bus, last'.cid) # <<>>
            /\ Head(MsgsOf(bus, last'.cid)) =
                   Msg(IF last'.op = "data" THEN "Data" ELSE "End",
                       last'.fd, last'.cid, last'.n)
            /\ MsgsOf(bus', last'.cid) = Tail(MsgsOf(bus, last'.cid))
            /\ \A c \in Conns \ {last'.cid} :
                   MsgsOf(bus', c) = MsgsOf(bus, c)
         ]_vars

\* C12 witness: the second packet of a session was just handled while its
\* End and another session's messages are queued.
C12_Witness ==
    /\ last.op = "data"
    /\ last.n = 2
    /\ MsgsOf(bus, last.cid) # <<>>
    /\ \E c \in Conns \ {last.cid} : Len(MsgsOf(bus, c)) >= 2

\* bytes of the stream the Reader has been given so far
Delivered == Len(Wire(io.packets)) + Len(io.tail) - Len(io.wire)

\* how many packets lie wholly within the first n bytes of the stream
CompleteIn(n) ==
    Cardinality({j \in 1..Len(io.packets) :
                    Len(Wire(SubSeq(io.packets, 1, j))) <= n})

\* one Frame per payload of ps, in order
Frames(ps) == [i \in 1..Len(ps) |-> [type |-> "Data", data |-> ps[i]]]

\* C13: however the stream is cut into reads, the Reader has published
\* exactly one Frame, with the exact payload and in order, for each packet
\* wholly delivered so far and nothing for a partly delivered one; when the
\* stream ends inside a length or a payload, it has published the Frames of
\* the complete packets and then only the End
C13_FramingExact ==
    /\ io.out = Frames(SubSeq(io.packets, 1, CompleteIn(Delivered)))
                    \o (IF io.phase = "done"
                        THEN <<[type |-> "End", data |-> <<>>]>> ELSE <<>>)
    /\ io.eof =>
           io.out = Append(Frames(io.packets), [type |-> "End", data |-> <<>>])

C13_Witness ==
    /\ io.eof /\ io.short
    /\ Len(io.packets) = MaxPackets
    /\ io.tail = <<0, 1, 0, 0, 5>>
    /\ Len(io.out) = MaxPackets + 1

\* the main thread handles a message of type op whose fd has no entry
HandlesUnknown(op) ==
    /\ cpc = "recv" /\ cpc' # "recv"
    /\ last'.op = op
    /\ last'.fd \notin DOMAIN windows

\* C14: handling an End whose fd has no entry leaves the map and every
\* window as they are, does not call align_windows, and the loop goes on
C14_UnknownEndChangesNothing ==
    [][HandlesUnknown("end") =>
          /\ windows' = windows
          /\ ~last'.relayout
          /\ cpc' = "poll" /\ fault' = fault]_vars

C14_Witness ==
    /\ last.op = "end" /\ last.was = "absent" /\ last.fd \notin DOMAIN windows
    /\ cpc = "poll"
    /\ \E f \in DOMAIN windows : windows[f].shown /\ windows[f].pos # <<0, 0>>

\* C15: handling a Data whose fd has no entry decodes nothing, leaves the
\* map and every window as they are, does not call align_windows, and the
\* loop goes on
C15_UnknownDataDiscarded ==
    [][HandlesUnknown("data") =>
          /\ last'.decode = "na" /\ last'.create = "na"
          /\ windows' = windows
          /\ ~last'.relayout
          /\ cpc' = "poll" /\ fault' = fault]_vars

C15_Witness ==
    /\ last.op = "data" /\ last.was = "absent" /\ last.fd \notin DOMAIN windows
    /\ last.decode = "na"
    /\ cpc = "poll"
    /\ \E f \in DOMAIN windows : windows[f].shown /\ windows[f].pos # <<0, 0>>

\* the main thread takes a message off the bus
TakesMessage == Len(bus') < Len(bus)

\* C16: the main thread takes at most one message per turn of the loop, and
\* only right after a poll that saw no quit: a message is taken only at
\* recv_timeout, one at a time, recv_timeout is entered only from the poll,
\* and a take leaves it; after the poll saw a quit the loop is over and no
\* message is taken or handled any more, queued or not
C16_OneEventPerTickQuitFirst ==
    [][/\ TakesMessage =>
              /\ cpc = "recv" /\ cpc' # "recv"
              /\ bus' = Tail(bus)
       /\ last' # last => TakesMessage
       /\ (cpc' = "recv" /\ cpc # "recv") => (cpc = "poll" /\ ~TakesMessage)
       /\ cpc = "exited" =>
              /\ cpc' = "exited"
              /\ ~TakesMessage
              /\ UNCHANGED <<windows, last, fault, clock>>
      ]_vars

C16_Witness == cpc = "exited" /\ Len(bus) >= 2 /\ last.op = "data"

\* the main thread handles a Data whose payload the decoder accepts
DrawsDecoded ==
    /\ cpc = "recv" /\ cpc' # "recv"
    /\ last'.op = "data" /\ last'.decode = "ok"

SameSession(f) ==
    /\ f \in DOMAIN windows /\ f \in DOMAIN windows'
    /\ windows'[f].cid = windows[f].cid

\* C18: while a session is in the map its Instant never changes; once it
\* has its YUVWindow it keeps it and no second one is made; the window's
\* (width, height) is the size of the picture of the Data that made it, the
\* session's first decoded one, and no later Data changes it, whatever the
\* size of its picture
C18_SessionFieldsFixed ==
    [][\A f \in Fds : SameSession(f) =>
          /\ windows'[f].created = windows[f].created
          /\ windows[f].shown =>
                 /\ windows'[f].shown /\ ~windows'[f].video
                 /\ windows'[f].w = windows[f].w
                 /\ windows'[f].h = windows[f].h
          /\ (~windows[f].shown /\ windows'[f].shown) =>
                 /\ windows[f].drawn = 0
                 /\ last'.op = "data" /\ last'.fd = f /\ last'.decode = "ok"
                 /\ <<windows'[f].w, windows'[f].h>> = last'.pic
      ]_vars

C18_Witness ==
    /\ last.op = "data" /\ last.was = "active" /\ last.decode = "ok"
    /\ last.fd \in DOMAIN windows
    /\ windows[last.fd].drawn = MaxFrames
    /\ last.pic # <<windows[last.fd].w, windows[last.fd].h>>

\* connection c's New has been taken off the bus
NewProcessed(c) ==
    /\ c <= nconn
    /\ \A i \in 1..Len(bus) : ~(bus[i].type = "New" /\ bus[i].cid = c)

\* C19: a connection's Reader runs, and its Data and End are on the bus,
\* only after the main thread has handled that connection's New; each Data
\* and End the main thread takes finds in the map, under its fd, the entry
\* of the very connection whose Reader sent it, also when the fd was used
\* by an earlier connection before
C19_EventsReachOwnSession ==
    /\ [](\A c \in Conns :
             (rpc[c] # "none" \/ MsgsOf(bus, c) # <<>>) => NewProcessed(c))
    /\ [][(TakesMessage /\ Head(bus).type \in {"Data", "End"}) =>
             /\ rpc[Head(bus).cid] # "none"
             /\ Head(bus).fd \in DOMAIN windows
             /\ windows[Head(bus).fd].cid = Head(bus).cid
             /\ last'.cid = Head(bus).cid
          ]_vars

C19_Witness ==
    /\ last.op = "data" /\ last.n = MaxFrames /\ last.cid > 1
    /\ \E c \in 1..(last.cid - 1) : rfd[c] = last.fd /\ EndProcessed(c)
    /\ last.fd \in DOMAIN windows /\ windows[last.fd].cid = last.cid

\* connection c's messages have all been taken and its entry is out of
\* the map
Removed(c) ==
    /\ MsgsOf(bus, c) = <<>>
    /\ \A f \in DOMAIN windows : windows[f].cid # c

\* C20: with no quit and fair scheduling, every connection whose Reader
\* has seen it close or fail has, in the end, all its Data taken by the
\* main thread and its entry removed from the map
C20_ClosedSessionsRemoved ==
    \A c \in Conns : Ended(c) ~> Removed(c)

\* the same, but for the runs in which the main thread panics
RemovedUnlessPanicked ==
    \A c \in Conns : Ended(c) ~> (Removed(c) \/ cpc = "panicked")

====
